---------------------------- MODULE Spec2Model ----------------------------
(***************************************************************************)
(* Policy-to-Outcome Compiler (src/src/lib.rs): PolicyCompiler::compile    *)
(* as a staged state machine over call-local data, with the lexical        *)
(* classifiers and the artifact compilers as operators on texts.           *)
(*                                                                         *)
(* A text (Rust &str / String) is a sequence of characters; a character is *)
(* a one-element string, except the non-ASCII characters, which are named. *)
(* Lengths and slice offsets are in UTF-8 bytes, as in Rust.               *)
(* Rust indices are 0-based: clause i of the code is clauses[i + 1] here.   *)
(***************************************************************************)
EXTENDS Integers, Sequences, FiniteSets, TLC

(***************************************************************************)
(* Characters and texts                                                    *)
(***************************************************************************)
Chars(s) == SubSeq([i \in 1..Len(s) |-> SubSeq(s, i, i)], 1, Len(s))

\* Non-ASCII characters, by name.
Euro == "<U+20AC>"
Pound == "<U+00A3>"
Yen == "<U+00A5>"
EAcute == "<U+00E9>"
EAcuteUpper == "<U+00C9>"
ACircLower == "<U+00E2>"
ACircUpper == "<U+00C2>"
LowQuote == "<U+201A>"
NotSign == "<U+00AC>"

\* UTF-8 encoded length of one character (str::len counts these bytes).
ByteLenChar(c) ==
    IF c \in {Euro, LowQuote} THEN 3
    ELSE IF c \in {Pound, Yen, EAcute, EAcuteUpper, ACircLower, ACircUpper, NotSign} THEN 2
    ELSE 1

\* Walk s from character k + 1, which starts at byte offset off, to the first character
\* boundary at or after byte offset n: <<characters before it, its byte offset>>.
RECURSIVE WalkBytes(_, _, _, _)
WalkBytes(s, k, off, n) ==
    IF off >= n \/ k = Len(s) THEN <<k, off>>
    ELSE WalkBytes(s, k + 1, off + ByteLenChar(s[k + 1]), n)

\* str::len: the sum of the characters' encoded lengths (each is 1, 2 or 3 bytes).
ByteLen(s) ==
    Len(s) + Cardinality({i \in DOMAIN s : ByteLenChar(s[i]) = 2})
           + 2 * Cardinality({i \in DOMAIN s : ByteLenChar(s[i]) = 3})

UpperLetters == Chars("ABCDEFGHIJKLMNOPQRSTUVWXYZ")
LowerLetters == Chars("abcdefghijklmnopqrstuvwxyz")
Digits == Chars("0123456789")

Range(f) == {f[i] : i \in DOMAIN f}

\* Iterator::collect: the sequence with every element evaluated.
Collect(f) == SubSeq(f, 1, Len(f))

UpperSet == Range(UpperLetters)
LowerSet == Range(LowerLetters)
AlphanumericSet ==
    UpperSet \cup LowerSet \cup Range(Digits) \cup {EAcute, EAcuteUpper, ACircLower, ACircUpper}
LowerOf == [c \in UpperSet |-> LowerLetters[CHOOSE i \in DOMAIN UpperLetters : UpperLetters[i] = c]]
UpperOf == [c \in LowerSet |-> UpperLetters[CHOOSE i \in DOMAIN LowerLetters : LowerLetters[i] = c]]

\* char::is_whitespace
IsWhitespace(c) == c \in {" ", "\t", "\n", "\r"}

\* char::is_alphanumeric
IsAlphanumeric(c) == c \in AlphanumericSet

ToLowerChar(c) ==
    IF c \in UpperSet THEN LowerOf[c]
    ELSE IF c = EAcuteUpper THEN EAcute
    ELSE IF c = ACircUpper THEN ACircLower
    ELSE c

ToUpperChar(c) ==
    IF c \in LowerSet THEN UpperOf[c]
    ELSE IF c = EAcute THEN EAcuteUpper
    ELSE IF c = ACircLower THEN ACircUpper
    ELSE c

\* str::to_lowercase / str::to_uppercase
ToLowercase(s) == Collect([i \in DOMAIN s |-> ToLowerChar(s[i])])
ToUppercase(s) == Collect([i \in DOMAIN s |-> ToUpperChar(s[i])])

\* str::contains(&str)
Contains(hay, needle) ==
    \E i \in 1..(Len(hay) - Len(needle) + 1) :
        \A j \in 1..Len(needle) : hay[i + j - 1] = needle[j]

Min(S) == CHOOSE i \in S : \A j \in S : i <= j

\* The first index in k..n where mask has value b, n + 1 if there is none.
ScanForward(mask, b, k, n) ==
    LET hits == {i \in k..n : mask[i] = b}
    IN  IF hits = {} THEN n + 1 ELSE Min(hits)

\* The last index in 1..k where mask has value b, 0 if there is none.
ScanBackward(mask, b, k) ==
    LET back == {k - i : i \in {j \in 1..k : mask[j] = b}}
    IN  IF back = {} THEN 0 ELSE k - Min(back)

\* str::trim_matches(pred): strip the characters at both ends that satisfy the
\* predicate; mask[i] tells whether character i satisfies it.
TrimMatches(s, mask) ==
    LET first == ScanForward(mask, FALSE, 1, Len(s))
        last == ScanBackward(mask, FALSE, Len(s))
    IN  IF first > Len(s) THEN <<>> ELSE SubSeq(s, first, last)

\* str::trim
Trim(s) == TrimMatches(s, Collect([i \in DOMAIN s |-> IsWhitespace(s[i])]))

\* trim_matches(|c: char| !c.is_alphanumeric())
NotAlphanumeric(s) == Collect([i \in DOMAIN s |-> ~IsAlphanumeric(s[i])])

\* str::split(char): the pieces between the delimiters, empty pieces included.
RECURSIVE Split(_, _)
Split(s, d) ==
    LET k == ScanForward(s, d, 1, Len(s))
    IN  IF k > Len(s) THEN <<s>>
        ELSE <<SubSeq(s, 1, k - 1)>> \o Split(SubSeq(s, k + 1, Len(s)), d)

\* str::split_terminator(char): as split, without a trailing empty piece.
SplitTerminator(s, d) ==
    LET pieces == Split(s, d)
    IN  IF pieces[Len(pieces)] = <<>> THEN SubSeq(pieces, 1, Len(pieces) - 1) ELSE pieces

NonEmpty(s) == s # <<>>

\* str::split_whitespace: the maximal runs of non-whitespace characters.
RECURSIVE SplitWhitespace(_)
SplitWhitespace(s) ==
    LET mask == Collect([i \in DOMAIN s |-> IsWhitespace(s[i])])
        first == ScanForward(mask, FALSE, 1, Len(s))
        stop == ScanForward(mask, TRUE, first, Len(s))
    IN  IF first > Len(s) THEN <<>>
        ELSE <<SubSeq(s, first, stop - 1)>> \o SplitWhitespace(SubSeq(s, stop, Len(s)))

\* str::is_char_boundary(n): byte offset n is the start of a character or the end.
IsCharBoundary(s, n) == WalkBytes(s, 0, 0, n)[2] = n

\* &s[..n] where n is a character boundary.
SlicePrefix(s, n) ==
    SubSeq(s, 1, WalkBytes(s, 0, 0, n)[1])

\* usize Display: format!("{}", i)
FormatIndex(i) == ToString(i)

(***************************************************************************)
(* Option<T>: None is the empty sequence, Some(v) the one-element one.     *)
(***************************************************************************)
None == <<>>
Some(v) == <<v>>

\* Index of the first element a loop stops at: the first TRUE of flags, 0 if there
\* is none.
FirstIndex(flags) ==
    LET hits == {i \in DOMAIN flags : flags[i]}
    IN  IF hits = {} THEN 0 ELSE Min(hits)

(***************************************************************************)
(* Keyword tables                                                          *)
(***************************************************************************)
MODAL_WORDS ==
    <<"should", "may", "where reasonable", "as appropriate", "could", "might", "possibly">>

ACTION_VERBS ==
    <<"must", "shall", "require", "log", "audit", "record", "deny", "allow",
      "enforce", "track", "exceed">>

COST_INDICATORS ==
    <<"cost", "spend", "usage", "quota", "resource consumption", "externality",
      "budget", "expense">>

stop_words ==
    <<"cost", "spend", "usage", "quota", "the", "a", "an", "of", "for",
      "per", "must", "shall", "cannot", "exceed", "all", "no", "be", "by",
      "system", "user", "service">>

\* The currency glyphs and the mis-decoded sequences the unit resolver rejects.
CurrencyGlyphs ==
    << <<"$">>, <<Euro>>, <<Pound>>, <<Yen>>,
       <<ACircLower, LowQuote, NotSign>>, <<ACircUpper, Pound>>, <<ACircUpper, Yen>> >>

UnitKeywords == <<"usd", "eur", "gbp", "tokens", "bytes", "requests", "hours">>

\* MeasurementUnit::as_str of the variant tested at the same position.
UnitNames == <<"USD", "EUR", "GBP", "tokens", "bytes", "requests", "hours">>

PrincipalNames == <<"SYSTEM", "USER", "SERVICE">>

\* The tables as texts.
Texts(words) == Collect([k \in DOMAIN words |-> Chars(words[k])])
ModalTexts == Texts(MODAL_WORDS)
ActionTexts == Texts(ACTION_VERBS)
CostTexts == Texts(COST_INDICATORS)
StopTexts == Texts(stop_words)
UnitTexts == Texts(UnitKeywords)
PrincipalTexts == Texts(PrincipalNames)

(***************************************************************************)
(* Lexical classifiers                                                     *)
(***************************************************************************)
\* Mutation of Principal_from_clause: a principal name is looked for as a substring
\* of the clause instead of as a whole token.
Principal_from_clause_substring(clause) ==
    LET clause_upper == ToUppercase(clause)
        hits == {k \in DOMAIN PrincipalTexts : Contains(clause_upper, PrincipalTexts[k])}
    IN  IF hits = {} THEN None ELSE Some(PrincipalNames[Min(hits)])

\* Principal::from_clause
Principal_from_clause(clause) ==
    LET clause_upper == ToUppercase(clause)
        words == SplitWhitespace(clause_upper)
        tokens == Collect([i \in DOMAIN words |-> TrimMatches(words[i], NotAlphanumeric(words[i]))])
        IsPrincipal(t) == \E k \in DOMAIN PrincipalTexts : t = PrincipalTexts[k]
        hit == FirstIndex([i \in DOMAIN tokens |-> IsPrincipal(tokens[i])])
    IN  IF hit = 0 THEN None
        ELSE Some(PrincipalNames[CHOOSE k \in DOMAIN PrincipalTexts :
                                     tokens[hit] = PrincipalTexts[k]])

\* MeasurementUnit::from_clause
MeasurementUnit_from_clause(clause) ==
    LET clause_lower == ToLowercase(clause)
        HasKeyword(w) == Contains(clause_lower, w)
        hit == FirstIndex([i \in DOMAIN UnitTexts |-> HasKeyword(UnitTexts[i])])
    IN  IF \E g \in DOMAIN CurrencyGlyphs : Contains(clause, CurrencyGlyphs[g]) THEN None
        ELSE IF hit = 0 THEN None
        ELSE Some(UnitNames[hit])

\* PolicyCompiler::extract_subject
extract_subject(clause) ==
    LET words == SplitWhitespace(clause)
        clean == Collect([i \in DOMAIN words |-> TrimMatches(words[i], NotAlphanumeric(words[i]))])
        IsSubject(clean_word) ==
            /\ ByteLen(clean_word) > 3
            /\ \A k \in DOMAIN StopTexts : ToLowercase(clean_word) # StopTexts[k]
        hit == FirstIndex([i \in DOMAIN clean |-> IsSubject(clean[i])])
    IN  IF hit = 0 THEN None ELSE Some(clean[hit])

\* PolicyCompiler::truncate_clause panics when it slices off a character boundary.
truncate_clause_panics(clause, max_len) ==
    ByteLen(clause) > max_len /\ ~IsCharBoundary(clause, max_len)

\* PolicyCompiler::truncate_clause (its value when it does not panic)
truncate_clause(clause, max_len) ==
    IF ByteLen(clause) <= max_len THEN clause
    ELSE SlicePrefix(clause, max_len) \o Chars("...")

(***************************************************************************)
(* Errors and results                                                      *)
(***************************************************************************)
EmptyInput == [kind |-> "EmptyInput"]
NoClauses == [kind |-> "NoClauses"]
ModalLanguageDetected(i, c, w) ==
    [kind |-> "ModalLanguageDetected", clause_index |-> i, clause |-> c, modal_word |-> w]
MissingActionVerb(i, c) == [kind |-> "MissingActionVerb", clause_index |-> i, clause |-> c]
AmbiguousMultiAction(i, c) == [kind |-> "AmbiguousMultiAction", clause_index |-> i, clause |-> c]
MissingPrincipal(i, c) == [kind |-> "MissingPrincipal", clause_index |-> i, clause |-> c]
MissingMeasurementUnit(i, c) ==
    [kind |-> "MissingMeasurementUnit", clause_index |-> i, clause |-> c]
MissingCostSubject(i, c) == [kind |-> "MissingCostSubject", clause_index |-> i, clause |-> c]

\* impl Display for CompilationError
ErrorToString(e) ==
    LET at == Chars("Clause ") \o Chars(FormatIndex(e.clause_index))
        quoted == Chars(": '") \o e.clause \o Chars("'")
    IN  CASE e.kind = "EmptyInput" -> Chars("Empty policy input")
          [] e.kind = "NoClauses" -> Chars("No valid clauses found")
          [] e.kind = "ModalLanguageDetected" ->
                 at \o Chars(" contains modal language '") \o Chars(e.modal_word)
                    \o Chars("'") \o quoted
          [] e.kind = "MissingActionVerb" -> at \o Chars(" missing action verb") \o quoted
          [] e.kind = "AmbiguousMultiAction" ->
                 at \o Chars(" has ambiguous multi-action without ordering") \o quoted
          [] e.kind = "MissingPrincipal" ->
                 at \o Chars(" missing explicit principal") \o quoted
          [] e.kind = "MissingMeasurementUnit" ->
                 at \o Chars(" mentions cost but no explicit measurement unit") \o quoted
          [] e.kind = "MissingCostSubject" ->
                 at \o Chars(" mentions cost but no attribution subject") \o quoted

EmptyNormalization == [clauses |-> <<>>, assumptions |-> <<>>, exclusions |-> <<>>]

\* PolicyCompiler::fail_with_errors
fail_with_errors(errors) ==
    [intent_normalization |-> EmptyNormalization,
     dio_invariants |-> <<>>,
     zt_authority_graph |-> <<>>,
     icae_constraints |-> <<>>,
     traceability_map |-> <<>>,
     verdict |-> "Fail",
     errors |-> errors,
     failures |-> [k \in DOMAIN errors |-> ErrorToString(errors[k])]]

\* Mutation of fail_with_error: the error it was given is lost.
fail_with_error_dropped(error) == fail_with_errors(<<>>)

\* PolicyCompiler::fail_with_error
fail_with_error(error) == fail_with_errors(<<error>>)

\* CompilationResult::is_success
is_success(result) == result.verdict = "Pass"

\* CompilationResult::error_messages
error_messages(result) == [k \in DOMAIN result.errors |-> ErrorToString(result.errors[k])]


(***************************************************************************)
(* Pipeline stages                                                         *)
(***************************************************************************)
\* Truncation limits passed to truncate_clause.
DioDescriptionLimit == 50
RuleTextLimit == 30

\* Mutation of parse_clauses: the empty segments are kept.
parse_clauses_keep_empty(text) ==
    LET pieces == SplitTerminator(text, ".")
    IN  Collect([k \in DOMAIN pieces |-> Trim(pieces[k])])

\* Mutation of parse_clauses: the segments are filtered but not trimmed.
parse_clauses_untrimmed(text) ==
    SelectSeq(SplitTerminator(text, "."), NonEmpty)

\* PolicyCompiler::parse_clauses
parse_clauses(text) ==
    LET pieces == SplitTerminator(text, ".")
        trimmed == Collect([k \in DOMAIN pieces |-> Trim(pieces[k])])
    IN  SelectSeq(trimmed, NonEmpty)

ContainsAny(clause_lower, words) ==
    \E k \in DOMAIN words : Contains(clause_lower, words[k])

HasModal(clause) == ContainsAny(ToLowercase(clause), ModalTexts)

\* Mutation of FirstModal: the head of MODAL_WORDS is reported, matched or not.
FirstModal_first_listed(clause) == MODAL_WORDS[1]

\* The modal word reported for a clause: the first of MODAL_WORDS it contains.
FirstModal(clause) ==
    LET clause_lower == ToLowercase(clause)
        In(w) == Contains(clause_lower, w)
    IN  MODAL_WORDS[FirstIndex([i \in DOMAIN ModalTexts |-> In(ModalTexts[i])])]

LacksAction(clause) == ~ContainsAny(ToLowercase(clause), ActionTexts)

\* Mutation of IsAmbiguous: the ordering markers are not looked at.
IsAmbiguous_ignores_markers(clause) ==
    LET clause_lower == ToLowercase(clause)
    IN  Contains(clause_lower, Chars(" and ")) \/ Contains(clause_lower, Chars(" or "))

IsAmbiguous(clause) ==
    LET clause_lower == ToLowercase(clause)
    IN  /\ Contains(clause_lower, Chars(" and ")) \/ Contains(clause_lower, Chars(" or "))
        /\ ~Contains(clause_lower, Chars("then"))
        /\ ~Contains(clause_lower, Chars("before"))
        /\ ~Contains(clause_lower, Chars("after"))

IsAssumption(clause) ==
    LET clause_lower == ToLowercase(clause)
    IN  Contains(clause_lower, Chars("assumes")) \/ Contains(clause_lower, Chars("assuming"))

\* Mutation of IsExclusion: the exclusion test is an else-branch of the assumption test.
IsExclusion_else_branch(clause) ==
    LET clause_lower == ToLowercase(clause)
    IN  /\ ~IsAssumption(clause)
        /\ \/ Contains(clause_lower, Chars("except"))
           \/ Contains(clause_lower, Chars("exclude"))
           \/ Contains(clause_lower, Chars("unless"))

IsExclusion(clause) ==
    LET clause_lower == ToLowercase(clause)
    IN  \/ Contains(clause_lower, Chars("except"))
        \/ Contains(clause_lower, Chars("exclude"))
        \/ Contains(clause_lower, Chars("unless"))

\* Result<IntentNormalization, CompilationError>
Ok(v) == [ok |-> TRUE, value |-> v]
Err(e) == [ok |-> FALSE, error |-> e]

\* Mutation of normalize_intent: each pass reports the last clause that violates its
\* rule instead of stopping at the first.
normalize_intent_last_violation(clauses) ==
    LET Last(S) == IF S = {} THEN 0 ELSE CHOOSE i \in S : \A j \in S : j <= i
        modal == Last({k \in DOMAIN clauses : HasModal(clauses[k])})
        verbless == Last({k \in DOMAIN clauses : LacksAction(clauses[k])})
        ambiguous == Last({k \in DOMAIN clauses : IsAmbiguous(clauses[k])})
    IN  IF modal # 0
        THEN Err(ModalLanguageDetected(modal - 1, clauses[modal], FirstModal(clauses[modal])))
        ELSE IF verbless # 0
        THEN Err(MissingActionVerb(verbless - 1, clauses[verbless]))
        ELSE IF ambiguous # 0
        THEN Err(AmbiguousMultiAction(ambiguous - 1, clauses[ambiguous]))
        ELSE Ok([clauses |-> clauses,
                 assumptions |-> SelectSeq(clauses, IsAssumption),
                 exclusions |-> SelectSeq(clauses, IsExclusion)])

\* Mutation of normalize_intent: one loop applies the three rules to each clause in
\* turn, instead of one loop over all clauses per rule.
normalize_intent_single_pass(clauses) ==
    LET bad == FirstIndex([k \in DOMAIN clauses |->
                   HasModal(clauses[k]) \/ LacksAction(clauses[k]) \/ IsAmbiguous(clauses[k])])
    IN  IF bad = 0
        THEN Ok([clauses |-> clauses,
                 assumptions |-> SelectSeq(clauses, IsAssumption),
                 exclusions |-> SelectSeq(clauses, IsExclusion)])
        ELSE IF HasModal(clauses[bad])
        THEN Err(ModalLanguageDetected(bad - 1, clauses[bad], FirstModal(clauses[bad])))
        ELSE IF LacksAction(clauses[bad])
        THEN Err(MissingActionVerb(bad - 1, clauses[bad]))
        ELSE Err(AmbiguousMultiAction(bad - 1, clauses[bad]))

\* PolicyCompiler::normalize_intent
normalize_intent(clauses) ==
    LET modal == FirstIndex([k \in DOMAIN clauses |-> HasModal(clauses[k])])
        verbless == FirstIndex([k \in DOMAIN clauses |-> LacksAction(clauses[k])])
        ambiguous == FirstIndex([k \in DOMAIN clauses |-> IsAmbiguous(clauses[k])])
    IN  IF modal # 0
        THEN Err(ModalLanguageDetected(modal - 1, clauses[modal], FirstModal(clauses[modal])))
        ELSE IF verbless # 0
        THEN Err(MissingActionVerb(verbless - 1, clauses[verbless]))
        ELSE IF ambiguous # 0
        THEN Err(AmbiguousMultiAction(ambiguous - 1, clauses[ambiguous]))
        ELSE Ok([clauses |-> clauses,
                 assumptions |-> SelectSeq(clauses, IsAssumption),
                 exclusions |-> SelectSeq(clauses, IsExclusion)])

\* The maps keyed by clause index, each entry initialized to an empty list.
EmptyByClause(n) == [i \in 0..(n - 1) |-> <<>>]

\* format!("dio_{}", i) and the other identifiers built from a clause index.
FormatId(prefix, i) == prefix \o FormatIndex(i)

DIOInvariant(i, clause) ==
    [id |-> FormatId("dio_", i),
     description |-> Chars("Enforce policy clause: ") \o truncate_clause(clause, DioDescriptionLimit),
     clause_index |-> i,
     failure_signal |-> FormatId("VIOLATION_DIO_", i)]

\* PolicyCompiler::compile_dio_invariants panics in truncate_clause.
compile_dio_invariants_panics(clauses) ==
    \E k \in DOMAIN clauses : truncate_clause_panics(clauses[k], DioDescriptionLimit)

\* PolicyCompiler::compile_dio_invariants: the map it leaves in dio_by_clause.
compile_dio_invariants(clauses, dio_by_clause) ==
    [i \in DOMAIN dio_by_clause |->
        IF i + 1 \in DOMAIN clauses
        THEN Append(dio_by_clause[i], DIOInvariant(i, clauses[i + 1]))
        ELSE dio_by_clause[i]]

ZTAuthority(i, clause, principal) ==
    LET truncated_clause == truncate_clause(clause, RuleTextLimit)
    IN  [id |-> FormatId("zt_auth_", i),
         principal |-> principal,
         scope |-> FormatId("scope_", i),
         clause_index |-> i,
         delegation_rules |->
             << Chars("Delegation requires explicit ") \o Chars(principal)
                    \o Chars(" approval for: ") \o truncated_clause >>,
         revocation_triggers |->
             << Chars("Revoke on policy change affecting: ") \o truncated_clause >>]

\* PolicyCompiler::compile_zt_authority panics in truncate_clause.
compile_zt_authority_panics(clauses) ==
    \E k \in DOMAIN clauses :
        /\ truncate_clause_panics(clauses[k], RuleTextLimit)
        /\ Principal_from_clause(clauses[k]) # None

\* The MissingPrincipal errors of clauses k.. in clause order, given each clause's principal.
RECURSIVE AuthErrorsFrom(_, _, _)
AuthErrorsFrom(clauses, principals, k) ==
    IF k > Len(clauses) THEN <<>>
    ELSE (IF principals[k] = None THEN <<MissingPrincipal(k - 1, clauses[k])>> ELSE <<>>)
             \o AuthErrorsFrom(clauses, principals, k + 1)

\* Mutation of compile_zt_authority: a clause without a principal is passed over
\* without an error.
compile_zt_authority_skips_unresolved(clauses, auth_by_clause) ==
    LET principals == Collect([k \in DOMAIN clauses |-> Principal_from_clause(clauses[k])])
    IN  [map |-> [i \in DOMAIN auth_by_clause |->
                     IF i + 1 \in DOMAIN clauses /\ principals[i + 1] # None
                     THEN Append(auth_by_clause[i],
                                 ZTAuthority(i, clauses[i + 1], principals[i + 1][1]))
                     ELSE auth_by_clause[i]],
         errors |-> <<>>]

\* PolicyCompiler::compile_zt_authority: the map it leaves and the errors it returns.
compile_zt_authority(clauses, auth_by_clause) ==
    LET principals == Collect([k \in DOMAIN clauses |-> Principal_from_clause(clauses[k])])
    IN  [map |-> [i \in DOMAIN auth_by_clause |->
                     IF i + 1 \in DOMAIN clauses /\ principals[i + 1] # None
                     THEN Append(auth_by_clause[i],
                                 ZTAuthority(i, clauses[i + 1], principals[i + 1][1]))
                     ELSE auth_by_clause[i]],
         errors |-> AuthErrorsFrom(clauses, principals, 1)]

\* Mutation of has_cost_mention: the clause is searched as written, not lowercased.
has_cost_mention_case_sensitive(clause) == ContainsAny(clause, CostTexts)

\* COST_INDICATORS.iter().any(|indicator| clause_lower.contains(indicator))
has_cost_mention(clause) == ContainsAny(ToLowercase(clause), CostTexts)

\* Mutation of CostScan: the unit is resolved before the subject.
CostScan_unit_first(clause) ==
    IF ~has_cost_mention(clause) THEN [outcome |-> "skip"]
    ELSE LET measurement_unit == MeasurementUnit_from_clause(clause)
         IN  IF measurement_unit = None THEN [outcome |-> "no_unit"]
             ELSE LET subject == extract_subject(clause)
                  IN  IF subject = None THEN [outcome |-> "no_subject"]
                      ELSE [outcome |-> "emit", subject |-> subject[1],
                            measurement_unit |-> measurement_unit[1]]

\* What the cost loop does with one clause: it skips a clause without a cost mention,
\* records MissingCostSubject without looking for a unit, records
\* MissingMeasurementUnit, or emits a constraint.
CostScan(clause) ==
    IF ~has_cost_mention(clause) THEN [outcome |-> "skip"]
    ELSE LET subject == extract_subject(clause)
         IN  IF subject = None THEN [outcome |-> "no_subject"]
             ELSE LET measurement_unit == MeasurementUnit_from_clause(clause)
                  IN  IF measurement_unit = None THEN [outcome |-> "no_unit"]
                      ELSE [outcome |-> "emit", subject |-> subject[1],
                            measurement_unit |-> measurement_unit[1]]

ICAECostConstraint(i, clause, subject, measurement_unit) ==
    [id |-> FormatId("icae_", i),
     subject |-> subject,
     measurement_unit |-> measurement_unit,
     clause_index |-> i,
     ceiling |-> None,
     externalities |->
         << Chars("External cost from: ") \o truncate_clause(clause, RuleTextLimit) >>]

\* PolicyCompiler::compile_icae_constraints panics in truncate_clause.
compile_icae_constraints_panics(clauses) ==
    \E k \in DOMAIN clauses :
        /\ truncate_clause_panics(clauses[k], RuleTextLimit)
        /\ CostScan(clauses[k]).outcome = "emit"

\* The cost errors of clauses k.. in clause order, given each clause's scan.
RECURSIVE CostErrorsFrom(_, _, _)
CostErrorsFrom(clauses, scans, k) ==
    IF k > Len(clauses) THEN <<>>
    ELSE (CASE scans[k].outcome = "no_subject" -> <<MissingCostSubject(k - 1, clauses[k])>>
            [] scans[k].outcome = "no_unit" -> <<MissingMeasurementUnit(k - 1, clauses[k])>>
            [] OTHER -> <<>>) \o CostErrorsFrom(clauses, scans, k + 1)

\* PolicyCompiler::compile_icae_constraints: the map it leaves and the errors it returns.
compile_icae_constraints(clauses, cost_by_clause) ==
    LET scans == Collect([k \in DOMAIN clauses |-> CostScan(clauses[k])])
    IN  [map |-> [i \in DOMAIN cost_by_clause |->
                     IF i + 1 \in DOMAIN clauses /\ scans[i + 1].outcome = "emit"
                     THEN Append(cost_by_clause[i],
                                 ICAECostConstraint(i, clauses[i + 1], scans[i + 1].subject,
                                                    scans[i + 1].measurement_unit))
                     ELSE cost_by_clause[i]],
         errors |-> CostErrorsFrom(clauses, scans, 1)]

\* The flattening loop of compile: the lists of the map in clause order.
RECURSIVE FlattenFrom(_, _, _)
FlattenFrom(by_clause, i, n) ==
    IF i >= n THEN <<>>
    ELSE (IF i \in DOMAIN by_clause THEN by_clause[i] ELSE <<>>) \o FlattenFrom(by_clause, i + 1, n)

Flatten(by_clause, n) == FlattenFrom(by_clause, 0, n)

\* Mutation of IdsAt: the ids are not filtered by clause index, so an entry also
\* lists the ids generated for the clauses before it.
IdsAt_all(by_clause, i) ==
    LET upto == FlattenFrom(by_clause, 0, i + 1)
    IN  [k \in DOMAIN upto |-> upto[k].id]

\* The ids of the artifacts the map holds for clause i (empty when it holds none).
IdsAt(by_clause, i) ==
    IF i \in DOMAIN by_clause
    THEN [k \in DOMAIN by_clause[i] |-> by_clause[i][k].id]
    ELSE <<>>

\* PolicyCompiler::build_traceability_map
build_traceability_map(clauses, dio_by_clause, auth_by_clause, cost_by_clause) ==
    [k \in DOMAIN clauses |->
        [clause_id |-> FormatId("clause_", k - 1),
         clause_index |-> k - 1,
         clause_text |-> clauses[k],
         invariant_ids |-> IdsAt(dio_by_clause, k - 1),
         authority_ids |-> IdsAt(auth_by_clause, k - 1),
         cost_ids |-> IdsAt(cost_by_clause, k - 1)]]

\* The CompilationResult compile builds when every stage succeeded.
PassResult(norm, clauses, dio_by_clause, auth_by_clause, cost_by_clause) ==
    [intent_normalization |-> norm,
     dio_invariants |-> Flatten(dio_by_clause, Len(clauses)),
     zt_authority_graph |-> Flatten(auth_by_clause, Len(clauses)),
     icae_constraints |-> Flatten(cost_by_clause, Len(clauses)),
     traceability_map |->
         build_traceability_map(clauses, dio_by_clause, auth_by_clause, cost_by_clause),
     verdict |-> "Pass",
     errors |-> <<>>,
     failures |-> <<>>]

\* The outcome of a call that unwinds with a panic instead of returning.
Panic == [verdict |-> "Panic"]

\* PolicyCompiler::compile, run to completion by one caller on its own.
compile(policy_input) ==
    LET policy_text == Trim(policy_input)
        clauses == parse_clauses(policy_text)
        norm == normalize_intent(clauses)
        dio_by_clause == compile_dio_invariants(clauses, EmptyByClause(Len(clauses)))
        auth == compile_zt_authority(clauses, EmptyByClause(Len(clauses)))
        cost == compile_icae_constraints(clauses, EmptyByClause(Len(clauses)))
    IN  IF policy_text = <<>> THEN fail_with_error(EmptyInput)
        ELSE IF clauses = <<>> THEN fail_with_error(NoClauses)
        ELSE IF ~norm.ok THEN fail_with_error(norm.error)
        ELSE IF compile_dio_invariants_panics(clauses) THEN Panic
        ELSE IF compile_zt_authority_panics(clauses) THEN Panic
        ELSE IF auth.errors # <<>> THEN fail_with_errors(auth.errors)
        ELSE IF compile_icae_constraints_panics(clauses) THEN Panic
        ELSE IF cost.errors # <<>> THEN fail_with_errors(cost.errors)
        ELSE PassResult(norm.value, clauses, dio_by_clause, auth.map, cost.map)


(***************************************************************************)
(* Bounds and inputs                                                       *)
(***************************************************************************)
\* The most clauses a policy of the sequential specification is built from.
MaxClauses == 2
\* The number of callers that run compile in parallel.
NCallers == 2

Callers == 1..NCallers
Repeat(c, n) == [i \in 1..n |-> c]

\* The clause texts policies are built from.
ClauseTexts ==
    << Chars("All actions must be logged by SYSTEM"),
       Chars("Cost must be tracked in USD by SERVICE"),
       Chars("All actions must be logged"),
       Chars("Usage must be tracked"),
       Chars("Actions may be logged by USER"),
       Chars("Access should work"),
       Chars("The system is secure by SYSTEM"),
       Chars("Log all actions and audit them"),
       Chars("Log actions and then audit them by USER"),
       Chars("Cost must be for the by SYSTEM"),
       Chars("Cost of logging cannot exceed $100 by SERVICE"),
       \* longer than 50 bytes, byte 50 inside a two-byte character, no principal
       Chars("All ") \o Repeat("a", 45) \o <<EAcute>> \o Chars(" must be logged"),
       \* between 30 and 50 bytes, byte 30 inside a three-byte character
       Chars("Data must be logged by SYSTEM") \o <<Euro>> \o Chars(" now"),
       \* longer than 50 bytes, ASCII only
       Chars("All ") \o Repeat("a", 47) \o Chars(" must be logged by USER") >>

\* The sequences of 1..n clause texts.
RECURSIVE ClauseSeqs(_)
ClauseSeqs(n) ==
    IF n = 0 THEN {<<>>}
    ELSE LET shorter == ClauseSeqs(n - 1)
         IN  shorter \cup {Append(cs, ClauseTexts[k]) : cs \in shorter, k \in DOMAIN ClauseTexts}

\* A policy text: each clause followed by a terminator, ...
RECURSIVE Terminated(_)
Terminated(cs) ==
    IF cs = <<>> THEN <<>>
    ELSE Head(cs) \o Chars(".") \o (IF Tail(cs) = <<>> THEN <<>> ELSE Chars(" ") \o Terminated(Tail(cs)))

\* ... or padded with whitespace, separated by empty pieces, the last one unterminated.
RECURSIVE Separated(_)
Separated(cs) ==
    IF cs = <<>> THEN <<>>
    ELSE Head(cs) \o (IF Tail(cs) = <<>> THEN Chars(" ") ELSE Chars(" ..\n") \o Separated(Tail(cs)))

StructuralInputs ==
    {Chars(""), Chars("   \n\t  "), Chars("..."), Chars(" . . "), Chars(".")}

Inputs ==
    StructuralInputs
        \cup {Terminated(cs) : cs \in ClauseSeqs(MaxClauses) \ {<<>>}}
        \cup {Chars("\t ") \o Separated(cs) : cs \in ClauseSeqs(MaxClauses) \ {<<>>}}

\* The inputs of the callers that run in parallel.
ConcInputs ==
    {Chars("A must log by USER."),
     Chars("Cost must be logged in USD by SYSTEM. B must log."),
     Chars("Usage must be tracked by USER."),
     Chars("B may log."),
     Chars("Budget must be logged in hours by SERVICE. C must log by USER")}

\* Clause texts that exercise the lexical classifiers: principals, units, currency
\* glyphs, conjunctions and ordering markers.
LexClauseTexts ==
    << \* principals: whole tokens, punctuation stripped, any case, first one wins
       Chars("SYSTEMWIDE logging must be enforced"),
       Chars("Logs must be kept by (user)"),
       Chars("Access must be denied by service, always"),
       Chars("USER requests must be logged by SYSTEM"),
       Chars("Logs must be kept by sub-system"),
       \* the unit keywords
       Chars("Cost must be tracked in USD by SYSTEM"),
       Chars("Cost must be tracked in EUR by SYSTEM"),
       Chars("Cost must be tracked in GBP by SYSTEM"),
       Chars("Usage must be tracked in tokens by SYSTEM"),
       Chars("Usage must be tracked in bytes by SYSTEM"),
       Chars("Usage must be tracked in requests by SYSTEM"),
       Chars("Usage must be tracked in hours by SYSTEM"),
       \* several keywords, lower case, no keyword
       Chars("Usage must be tracked in hours, bytes, EUR by SYSTEM"),
       Chars("Budget must be tracked in usd by USER"),
       Chars("Expense must be tracked in widgets by USER"),
       \* currency glyphs, with and without a unit keyword
       Chars("Cost of logging cannot exceed $100 USD by SERVICE"),
       Chars("Spend on storage must be tracked in ") \o <<Pound>> \o Chars(" by USER"),
       Chars("Quota must not exceed ") \o <<Yen>> \o Chars("500 tokens by SYSTEM"),
       Chars("Cost must not exceed ") \o <<Euro>> \o Chars("100 by SYSTEM"),
       \* byte 30 inside the three-byte glyph, resp. inside a two-byte letter
       Chars("Cost of backup cannot exceed ") \o <<Euro>> \o Chars("100 by SERVICE"),
       Chars("Usage must be tracked for caf") \o <<EAcute>> \o Chars(" in hours by USER"),
       \* conjunctions and ordering markers
       Chars("Deny or allow access by SYSTEM"),
       Chars("Log all actions AND audit them by USER"),
       Chars("Log and audit before access by USER"),
       Chars("Log or audit after review by SERVICE"),
       Chars("Log and track authentication by USER"),
       \* the remaining cost indicators, a cost indicator inside a longer word, and a
       \* clause that has only the first word of a two-word indicator
       Chars("Spend must be tracked in USD by SYSTEM"),
       Chars("Quota must be tracked in tokens by USER"),
       Chars("Expense must be tracked in EUR by USER"),
       Chars("Externality must be tracked in bytes by SYSTEM"),
       Chars("Resource consumption must be tracked in hours by SERVICE"),
       Chars("Costumes must be counted in hours by USER"),
       Chars("Resource use must be logged by SYSTEM"),
       \* subjects: punctuation around the token, only stop words and short tokens, and
       \* a token of three characters that is longer than three bytes
       Chars("Cost of (storage) must be tracked in USD by USER"),
       Chars("Cost must be for the by SYSTEM"),
       Chars("Cost must be for n") \o <<EAcute>> \o Chars("e in USD by USER"),
       Chars("Cost must be for n") \o <<EAcute>> \o Chars("e by USER") >>

\* One policy per clause text, alone and after a clause that passes every stage.
LexInputs ==
    {Terminated(<<LexClauseTexts[k]>>) : k \in DOMAIN LexClauseTexts}
        \cup {Terminated(<<LexClauseTexts[4], LexClauseTexts[k]>>) : k \in DOMAIN LexClauseTexts}

\* Clause texts that pass every stage, with and without the words that mark an
\* assumption or an exclusion.
NoteClauseTexts ==
    << Chars("Assumes network must be secure by SYSTEM"),
       Chars("All actions must be logged by SYSTEM"),
       Chars("Except for testing must be allowed by USER"),
       Chars("ASSUMING trust, deny unless approved by USER"),
       Chars("Excluded hosts must be denied by SERVICE"),
       Chars("Unless audited, access must be denied by USER"),
       Chars("Assumed safe hosts must be allowed by USER"),
       Chars("Exceptions must be logged by SYSTEM") >>

\* The sequences of 0..n of these clause texts.
RECURSIVE NoteSeqs(_)
NoteSeqs(n) ==
    IF n = 0 THEN {<<>>}
    ELSE LET shorter == NoteSeqs(n - 1)
         IN  shorter \cup {Append(cs, NoteClauseTexts[k]) :
                               cs \in shorter, k \in DOMAIN NoteClauseTexts}

NoteInputs == {Terminated(cs) : cs \in NoteSeqs(MaxClauses) \ {<<>>}}

(***************************************************************************)
(* State: the locals of each caller's compile call and the value returned  *)
(***************************************************************************)
VARIABLES pc, policy_input, policy_text, clauses, norm,
          dio_by_clause, auth_by_clause, cost_by_clause, result

vars == <<pc, policy_input, policy_text, clauses, norm,
          dio_by_clause, auth_by_clause, cost_by_clause, result>>

\* No value returned yet.
Pending == [verdict |-> "Pending"]

Init ==
    /\ pc = [c \in Callers |-> "Idle"]
    /\ policy_input = [c \in Callers |-> <<>>]
    /\ policy_text = [c \in Callers |-> <<>>]
    /\ clauses = [c \in Callers |-> <<>>]
    /\ norm = [c \in Callers |-> EmptyNormalization]
    /\ dio_by_clause = [c \in Callers |-> <<>>]
    /\ auth_by_clause = [c \in Callers |-> <<>>]
    /\ cost_by_clause = [c \in Callers |-> <<>>]
    /\ result = [c \in Callers |-> Pending]

\* Mutation of Local: the stages read one shared copy instead of the call's own.
Local_shared(v, self) == v[1]

\* The call-local value a stage of caller self's call reads.
Local(v, self) == v[self]

\* compile returns r to its caller.
Finish(self, r) ==
    /\ pc' = [pc EXCEPT ![self] = "Done"]
    /\ result' = [result EXCEPT ![self] = r]

\* A caller invokes compile(policy_input) on one of the inputs.
Call(self, inputs) ==
    /\ pc[self] = "Idle"
    /\ pc' = [pc EXCEPT ![self] = "Segmenting"]
    /\ \E text \in inputs : policy_input' = [policy_input EXCEPT ![self] = text]
    /\ UNCHANGED <<policy_text, clauses, norm, dio_by_clause, auth_by_clause,
                   cost_by_clause, result>>

\* Trim the input and parse the clauses; EmptyInput and NoClauses return here.
Segment(self) ==
    /\ pc[self] = "Segmenting"
    /\ LET text == Trim(Local(policy_input, self))
           parsed == parse_clauses(text)
       IN  /\ policy_text' = [policy_text EXCEPT ![self] = text]
           /\ IF text = <<>>
              THEN /\ Finish(self, fail_with_error(EmptyInput))
                   /\ UNCHANGED clauses
              ELSE /\ clauses' = [clauses EXCEPT ![self] = parsed]
                   /\ IF parsed = <<>>
                      THEN Finish(self, fail_with_error(NoClauses))
                      ELSE /\ pc' = [pc EXCEPT ![self] = "Normalizing"]
                           /\ UNCHANGED result
    /\ UNCHANGED <<policy_input, norm, dio_by_clause, auth_by_clause, cost_by_clause>>

\* normalize_intent, then the artifact maps are created with an empty list per clause.
Normalize(self) ==
    /\ pc[self] = "Normalizing"
    /\ LET r == normalize_intent(Local(clauses, self))
           n == Len(Local(clauses, self))
       IN  IF r.ok
           THEN /\ norm' = [norm EXCEPT ![self] = r.value]
                /\ dio_by_clause' = [dio_by_clause EXCEPT ![self] = EmptyByClause(n)]
                /\ auth_by_clause' = [auth_by_clause EXCEPT ![self] = EmptyByClause(n)]
                /\ cost_by_clause' = [cost_by_clause EXCEPT ![self] = EmptyByClause(n)]
                /\ pc' = [pc EXCEPT ![self] = "CompilingDIO"]
                /\ UNCHANGED result
           ELSE /\ Finish(self, fail_with_error(r.error))
                /\ UNCHANGED <<norm, dio_by_clause, auth_by_clause, cost_by_clause>>
    /\ UNCHANGED <<policy_input, policy_text, clauses>>

\* compile_dio_invariants; it cannot fail, but truncate_clause can panic.
CompileDIO(self) ==
    /\ pc[self] = "CompilingDIO"
    /\ IF compile_dio_invariants_panics(Local(clauses, self))
       THEN /\ pc' = [pc EXCEPT ![self] = "Panicked"]
            /\ UNCHANGED dio_by_clause
       ELSE /\ dio_by_clause' = [dio_by_clause EXCEPT ![self] =
                    compile_dio_invariants(Local(clauses, self), Local(dio_by_clause, self))]
            /\ pc' = [pc EXCEPT ![self] = "CompilingZT"]
    /\ UNCHANGED <<policy_input, policy_text, clauses, norm, auth_by_clause,
                   cost_by_clause, result>>

\* Mutation of CompileZT: a failing authority stage returns the invariants the
\* earlier stage had produced instead of discarding them.
CompileZT_keeps_dio(self) ==
    /\ pc[self] = "CompilingZT"
    /\ IF compile_zt_authority_panics(Local(clauses, self))
       THEN /\ pc' = [pc EXCEPT ![self] = "Panicked"]
            /\ UNCHANGED <<auth_by_clause, result>>
       ELSE LET auth == compile_zt_authority(Local(clauses, self), Local(auth_by_clause, self))
                kept == Flatten(Local(dio_by_clause, self), Len(Local(clauses, self)))
            IN  /\ auth_by_clause' = [auth_by_clause EXCEPT ![self] = auth.map]
                /\ IF auth.errors # <<>>
                   THEN Finish(self, [fail_with_errors(auth.errors)
                                          EXCEPT !.dio_invariants = kept])
                   ELSE /\ pc' = [pc EXCEPT ![self] = "CompilingICAE"]
                        /\ UNCHANGED result
    /\ UNCHANGED <<policy_input, policy_text, clauses, norm, dio_by_clause, cost_by_clause>>

\* compile_zt_authority; a non-empty error list returns Fail.
CompileZT(self) ==
    /\ pc[self] = "CompilingZT"
    /\ IF compile_zt_authority_panics(Local(clauses, self))
       THEN /\ pc' = [pc EXCEPT ![self] = "Panicked"]
            /\ UNCHANGED <<auth_by_clause, result>>
       ELSE LET auth == compile_zt_authority(Local(clauses, self), Local(auth_by_clause, self))
            IN  /\ auth_by_clause' = [auth_by_clause EXCEPT ![self] = auth.map]
                /\ IF auth.errors # <<>>
                   THEN Finish(self, fail_with_errors(auth.errors))
                   ELSE /\ pc' = [pc EXCEPT ![self] = "CompilingICAE"]
                        /\ UNCHANGED result
    /\ UNCHANGED <<policy_input, policy_text, clauses, norm, dio_by_clause, cost_by_clause>>

\* compile_icae_constraints; a non-empty error list returns Fail.
CompileICAE(self) ==
    /\ pc[self] = "CompilingICAE"
    /\ IF compile_icae_constraints_panics(Local(clauses, self))
       THEN /\ pc' = [pc EXCEPT ![self] = "Panicked"]
            /\ UNCHANGED <<cost_by_clause, result>>
       ELSE LET cost == compile_icae_constraints(Local(clauses, self), Local(cost_by_clause, self))
            IN  /\ cost_by_clause' = [cost_by_clause EXCEPT ![self] = cost.map]
                /\ IF cost.errors # <<>>
                   THEN Finish(self, fail_with_errors(cost.errors))
                   ELSE /\ pc' = [pc EXCEPT ![self] = "BuildingTraceability"]
                        /\ UNCHANGED result
    /\ UNCHANGED <<policy_input, policy_text, clauses, norm, dio_by_clause, auth_by_clause>>

\* Mutation of BuildTraceability: the maps are walked in hash order, which differs
\* from one map instance to the next, instead of in clause order.
BuildTraceability_hash_order(self) ==
    /\ pc[self] = "BuildingTraceability"
    /\ LET ordered == PassResult(Local(norm, self), Local(clauses, self),
                                 Local(dio_by_clause, self), Local(auth_by_clause, self),
                                 Local(cost_by_clause, self))
           Reverse(s) == [k \in DOMAIN s |-> s[Len(s) + 1 - k]]
       IN  Finish(self, IF self = 1 THEN ordered
                        ELSE [ordered EXCEPT !.dio_invariants = Reverse(@),
                                             !.zt_authority_graph = Reverse(@),
                                             !.icae_constraints = Reverse(@),
                                             !.traceability_map = Reverse(@)])
    /\ UNCHANGED <<policy_input, policy_text, clauses, norm, dio_by_clause,
                   auth_by_clause, cost_by_clause>>

\* Flatten the maps in clause order, build the traceability map, return Pass.
BuildTraceability(self) ==
    /\ pc[self] = "BuildingTraceability"
    /\ Finish(self, PassResult(Local(norm, self), Local(clauses, self),
                               Local(dio_by_clause, self), Local(auth_by_clause, self),
                               Local(cost_by_clause, self)))
    /\ UNCHANGED <<policy_input, policy_text, clauses, norm, dio_by_clause,
                   auth_by_clause, cost_by_clause>>

\* The caller drops the result and the call's locals; it may call again.
Return(self) ==
    /\ pc[self] = "Done"
    /\ pc' = [pc EXCEPT ![self] = "Idle"]
    /\ policy_input' = [policy_input EXCEPT ![self] = <<>>]
    /\ policy_text' = [policy_text EXCEPT ![self] = <<>>]
    /\ clauses' = [clauses EXCEPT ![self] = <<>>]
    /\ norm' = [norm EXCEPT ![self] = EmptyNormalization]
    /\ dio_by_clause' = [dio_by_clause EXCEPT ![self] = <<>>]
    /\ auth_by_clause' = [auth_by_clause EXCEPT ![self] = <<>>]
    /\ cost_by_clause' = [cost_by_clause EXCEPT ![self] = <<>>]
    /\ result' = [result EXCEPT ![self] = Pending]

\* One caller, any input.
Next ==
    \E self \in {1} :
        \/ Call(self, Inputs)
        \/ Segment(self)
        \/ Normalize(self)
        \/ CompileDIO(self)
        \/ CompileZT(self)
        \/ CompileICAE(self)
        \/ BuildTraceability(self)
        \/ Return(self)

Spec == Init /\ [][Next]_vars

\* Every caller, in parallel, each on its own input.
NextConc ==
    \E self \in Callers :
        \/ Call(self, ConcInputs)
        \/ Segment(self)
        \/ Normalize(self)
        \/ CompileDIO(self)
        \/ CompileZT(self)
        \/ CompileICAE(self)
        \/ BuildTraceability(self)
        \/ Return(self)

SpecConc == Init /\ [][NextConc]_vars



\* One caller, on the policies that exercise the lexical classifiers.
NextLex ==
    \E self \in {1} :
        \/ Call(self, LexInputs)
        \/ Segment(self)
        \/ Normalize(self)
        \/ CompileDIO(self)
        \/ CompileZT(self)
        \/ CompileICAE(self)
        \/ BuildTraceability(self)
        \/ Return(self)

SpecLex == Init /\ [][NextLex]_vars

\* One caller, on the policies with assumptions and exclusions.
NextNote ==
    \E self \in {1} :
        \/ Call(self, NoteInputs)
        \/ Segment(self)
        \/ Normalize(self)
        \/ CompileDIO(self)
        \/ CompileZT(self)
        \/ CompileICAE(self)
        \/ BuildTraceability(self)
        \/ Return(self)

SpecNote == Init /\ [][NextNote]_vars

\* The stages of a compile call that is running.
RunningStages ==
    {"Segmenting", "Normalizing", "CompilingDIO", "CompilingZT", "CompilingICAE",
     "BuildingTraceability"}

\* The call of caller self leaves the stage it is in. compile is straight-line code
\* without waits or loops over anything but the clauses, so a call that is in a stage
\* always can, and eventually does, take the step out of it.
Advance(self) ==
    /\ pc[self] \in RunningStages
    /\ \E next \in (RunningStages \cup {"Done", "Panicked"}) \ {pc[self]} :
           pc' = [pc EXCEPT ![self] = next]

\* One caller, any input, every started call running on.
SpecLive == Init /\ [][Next]_vars /\ WF_pc(Advance(1))

(***************************************************************************)
(* Properties                                                              *)
(***************************************************************************)
\* The call of caller c has returned a result.
Returned(c) == pc[c] = "Done"

\* The call of caller c has ended: it returned or it unwound with a panic.
Ended(c) == pc[c] \in {"Done", "Panicked"}

\* The elements of a set of integers in ascending order.
Ascending(S) ==
    [j \in 1..Cardinality(S) |-> CHOOSE k \in S : Cardinality({m \in S : m < k}) = j - 1]

\* The clauses of caller c's policy pass the three normalization rules.
PassesNormalization(c) ==
    /\ clauses[c] # <<>>
    /\ \A k \in DOMAIN clauses[c] :
           ~HasModal(clauses[c][k]) /\ ~LacksAction(clauses[c][k]) /\ ~IsAmbiguous(clauses[c][k])

\* The clauses (1-based) of caller c's policy that name no principal.
Unauthorized(c) == {k \in DOMAIN clauses[c] : Principal_from_clause(clauses[c][k]) = None}

\* C1: whenever compile returns Fail, the normalization result (clauses, assumptions,
\* exclusions), the three artifact lists and the traceability map of the result are all
\* empty, also when earlier stages had already produced artifacts.
C1_AllOrNothing ==
    \A c \in Callers :
        (Returned(c) /\ result[c].verdict = "Fail") =>
            /\ result[c].intent_normalization.clauses = <<>>
            /\ result[c].intent_normalization.assumptions = <<>>
            /\ result[c].intent_normalization.exclusions = <<>>
            /\ result[c].dio_invariants = <<>>
            /\ result[c].zt_authority_graph = <<>>
            /\ result[c].icae_constraints = <<>>
            /\ result[c].traceability_map = <<>>

\* A call returned Fail after the DIO stage and the ZT stage had produced artifacts.
C1_Witness ==
    \E c \in Callers :
        /\ Returned(c) /\ result[c].verdict = "Fail"
        /\ \E i \in DOMAIN dio_by_clause[c] : dio_by_clause[c][i] # <<>>
        /\ \E i \in DOMAIN auth_by_clause[c] : auth_by_clause[c][i] # <<>>
        /\ result[c].dio_invariants = <<>>

\* C2: the verdict of a returned result is Pass exactly when its error list is empty:
\* a Pass result has no errors and no error messages, a Fail result has at least one
\* error.
C2_PassIffNoErrors ==
    \A c \in Callers :
        Returned(c) =>
            /\ result[c].verdict \in {"Pass", "Fail"}
            /\ is_success(result[c]) <=> result[c].errors = <<>>
            /\ result[c].verdict = "Pass" => error_messages(result[c]) = <<>>
            /\ result[c].verdict = "Fail" => Len(result[c].errors) >= 1

\* A call returned Fail for an input without clauses, with its one error.
C2_Witness ==
    \E c \in Callers :
        /\ Returned(c) /\ result[c].verdict = "Fail"
        /\ clauses[c] = <<>>
        /\ Len(result[c].errors) = 1
        /\ Len(error_messages(result[c])) = 1

\* C3: for a policy that passes normalization and has a clause without a principal,
\* compile returns Fail and the error list is exactly one MissingPrincipal per clause
\* without a principal, in ascending clause order, whatever cost problems the clauses
\* have.
C3_ZTAggregates ==
    \A c \in Callers :
        (Ended(c) /\ PassesNormalization(c) /\ Unauthorized(c) # {}) =>
            /\ Returned(c)
            /\ result[c].verdict = "Fail"
            /\ LET missing == Ascending(Unauthorized(c))
               IN  result[c].errors =
                       [j \in DOMAIN missing |->
                           MissingPrincipal(missing[j] - 1, clauses[c][missing[j]])]

\* A call on a policy that passes normalization and has a clause without a principal
\* unwound with a panic of truncate_clause instead of returning.
C3_Witness ==
    \E c \in Callers :
        /\ pc[c] = "Panicked"
        /\ PassesNormalization(c)
        /\ Unauthorized(c) # {}


\* The error the cost rule asks of clause k (1-based): none for a clause without a
\* cost indicator, the subject before the unit for a cost-bearing one.
ExpectedCostError(k, clause) ==
    IF ~has_cost_mention(clause) THEN <<>>
    ELSE IF extract_subject(clause) = None THEN <<MissingCostSubject(k - 1, clause)>>
    ELSE IF MeasurementUnit_from_clause(clause) = None
    THEN <<MissingMeasurementUnit(k - 1, clause)>>
    ELSE <<>>

\* The expected cost errors of the clauses k.. in ascending clause order.
RECURSIVE ExpectedCostErrors(_, _)
ExpectedCostErrors(cs, k) ==
    IF k > Len(cs) THEN <<>>
    ELSE ExpectedCostError(k, cs[k]) \o ExpectedCostErrors(cs, k + 1)

\* C4: for a policy that passes normalization and the ZT stage, the ICAE stage returns;
\* each cost-bearing clause contributes at most one error, in ascending clause order:
\* MissingCostSubject if no subject resolves, otherwise MissingMeasurementUnit if no
\* unit resolves; a non-empty list is returned as Fail with exactly those errors, an
\* empty one lets the call pass.
C4_ICAEAggregates ==
    \A c \in Callers :
        /\ (Returned(c) /\ PassesNormalization(c) /\ Unauthorized(c) = {}) =>
               LET expected == ExpectedCostErrors(clauses[c], 1)
               IN  /\ \A k \in DOMAIN clauses[c] :
                          Cardinality({j \in DOMAIN result[c].errors :
                                          result[c].errors[j].clause_index = k - 1}) <= 1
                   /\ expected # <<>> =>
                          result[c].verdict = "Fail" /\ result[c].errors = expected
                   /\ expected = <<>> => result[c].verdict = "Pass"
        /\ pc[c] = "Panicked" =>
               \E i \in DOMAIN auth_by_clause[c] : auth_by_clause[c][i] = <<>>

\* A call returned Fail with a MissingCostSubject for its first clause and a
\* MissingMeasurementUnit for its second.
C4_Witness ==
    \E c \in Callers :
        /\ Returned(c) /\ result[c].verdict = "Fail"
        /\ Len(result[c].errors) = 2
        /\ result[c].errors[1].kind = "MissingCostSubject"
        /\ result[c].errors[1].clause_index = 0
        /\ MeasurementUnit_from_clause(result[c].errors[1].clause) = None
        /\ result[c].errors[2].kind = "MissingMeasurementUnit"
        /\ result[c].errors[2].clause_index = 1

\* C5: for a policy in which some clause contains a modal term, the call returns Fail
\* with a ModalLanguageDetected error that reports a clause of the policy and names a
\* modal term that clause contains.
C5_ModalFails ==
    \A c \in Callers :
        (pc[c] \notin {"Idle", "Segmenting", "Normalizing"}
             /\ \E k \in DOMAIN clauses[c] : HasModal(clauses[c][k])) =>
            /\ Returned(c)
            /\ result[c].verdict = "Fail"
            /\ \E j \in DOMAIN result[c].errors :
                   LET e == result[c].errors[j]
                   IN  /\ e.kind = "ModalLanguageDetected"
                       /\ e.clause_index + 1 \in DOMAIN clauses[c]
                       /\ e.clause = clauses[c][e.clause_index + 1]
                       /\ \E w \in DOMAIN MODAL_WORDS : e.modal_word = MODAL_WORDS[w]
                       /\ Contains(ToLowercase(e.clause), Chars(e.modal_word))

\* A call failed on a policy whose modal clause is not the first clause and whose
\* modal term is not the first of MODAL_WORDS.
C5_Witness ==
    \E c \in Callers :
        /\ Returned(c)
        /\ Len(result[c].errors) = 1
        /\ result[c].errors[1].kind = "ModalLanguageDetected"
        /\ result[c].errors[1].clause_index = 1
        /\ result[c].errors[1].modal_word = "may"


\* The kinds of the structural errors and of the normalization errors.
FailFastKinds ==
    {"EmptyInput", "NoClauses", "ModalLanguageDetected", "MissingActionVerb",
     "AmbiguousMultiAction"}

\* The clauses (1-based) of caller c's policy that violate the rule an error kind
\* stands for.
Violating(c, kind) ==
    {k \in DOMAIN clauses[c] :
        CASE kind = "ModalLanguageDetected" -> HasModal(clauses[c][k])
          [] kind = "MissingActionVerb" -> LacksAction(clauses[c][k])
          [] kind = "AmbiguousMultiAction" -> IsAmbiguous(clauses[c][k])
          [] OTHER -> FALSE}

\* C6: whenever compile fails with EmptyInput, NoClauses, ModalLanguageDetected,
\* MissingActionVerb or AmbiguousMultiAction, the error list has exactly one element,
\* and a normalization error reports the lowest-index clause that violates its rule.
C6_FailFast ==
    \A c \in Callers :
        Returned(c) =>
            \A j \in DOMAIN result[c].errors :
                LET e == result[c].errors[j]
                IN  e.kind \in FailFastKinds =>
                        /\ Len(result[c].errors) = 1
                        /\ e.kind \notin {"EmptyInput", "NoClauses"} =>
                               /\ e.clause_index + 1 \in Violating(c, e.kind)
                               /\ \A k \in Violating(c, e.kind) : e.clause_index + 1 <= k
                               /\ e.clause = clauses[c][e.clause_index + 1]

\* A call failed on the first of two clauses that both violate the same rule.
C6_Witness ==
    \E c \in Callers :
        /\ Returned(c)
        /\ Len(result[c].errors) = 1
        /\ result[c].errors[1].kind = "MissingActionVerb"
        /\ result[c].errors[1].clause_index = 0
        /\ Violating(c, "MissingActionVerb") = {1, 2}

\* The kinds of the errors in the result of caller c.
ErrorKinds(c) == {result[c].errors[j].kind : j \in DOMAIN result[c].errors}

\* Splitting the text on '.' yields no segment that is non-empty after trimming.
NoNonEmptySegment(text) ==
    LET pieces == Split(text, ".")
    IN  \A k \in DOMAIN pieces : Trim(pieces[k]) = <<>>

\* C7: compile fails with EmptyInput exactly when the input is empty after trimming,
\* and with NoClauses exactly when the trimmed input is non-empty but splitting it on
\* '.' yields no non-empty trimmed segment.
C7_StructuralErrors ==
    \A c \in Callers :
        Returned(c) =>
            LET trimmed == Trim(policy_input[c])
            IN  /\ "EmptyInput" \in ErrorKinds(c) <=> trimmed = <<>>
                /\ "NoClauses" \in ErrorKinds(c) <=>
                       (trimmed # <<>> /\ NoNonEmptySegment(trimmed))

\* A call failed with NoClauses on an input of terminators and whitespace only.
C7_Witness ==
    \E c \in Callers :
        /\ Returned(c)
        /\ ErrorKinds(c) = {"NoClauses"}
        /\ Contains(policy_input[c], Chars(" . "))


\* The ids, in list order, of the artifacts of a result list generated for clause i.
IdsFor(artifacts, i) ==
    LET ForClause(a) == a.clause_index = i
        own == SelectSeq(artifacts, ForClause)
    IN  [k \in DOMAIN own |-> own[k].id]

\* C8: on Pass the traceability map has one entry per clause in clause order; entry i
\* has clause_id clause_i, clause_index i and the text of clause i, and its three id
\* lists hold exactly the ids of the DIO, ZT and ICAE artifacts of the result that
\* were generated for clause i (an empty list when there is none).
C8_Traceability ==
    \A c \in Callers :
        (Returned(c) /\ result[c].verdict = "Pass") =>
            LET r == result[c]
            IN  /\ Len(r.traceability_map) = Len(clauses[c])
                /\ \A k \in DOMAIN r.traceability_map :
                       LET entry == r.traceability_map[k]
                       IN  /\ entry.clause_id = "clause_" \o ToString(k - 1)
                           /\ entry.clause_index = k - 1
                           /\ entry.clause_text = clauses[c][k]
                           /\ entry.invariant_ids = IdsFor(r.dio_invariants, k - 1)
                           /\ entry.authority_ids = IdsFor(r.zt_authority_graph, k - 1)
                           /\ entry.cost_ids = IdsFor(r.icae_constraints, k - 1)

\* A call passed on two clauses of which the second has a cost constraint and the
\* first has none.
C8_Witness ==
    \E c \in Callers :
        /\ Returned(c) /\ result[c].verdict = "Pass"
        /\ Len(result[c].traceability_map) = 2
        /\ result[c].traceability_map[1].cost_ids = <<>>
        /\ result[c].traceability_map[1].invariant_ids = <<"dio_0">>
        /\ result[c].traceability_map[2].cost_ids = <<"icae_1">>
        /\ result[c].traceability_map[2].invariant_ids = <<"dio_1">>

\* C9: two calls on the same input text return identical results, whatever the callers
\* compiled before and whatever other calls ran between them.
C9_Determinism ==
    \A c, d \in Callers :
        (Returned(c) /\ Returned(d) /\ policy_input[c] = policy_input[d]) =>
            result[c] = result[d]

\* Two callers hold the results of their calls on the same two-clause policy.
C9_Witness ==
    \E c, d \in Callers :
        /\ c # d
        /\ Returned(c) /\ Returned(d)
        /\ policy_input[c] = policy_input[d]
        /\ result[c].verdict = "Pass"
        /\ Len(result[c].dio_invariants) = 2

\* C10: under every interleaving of the stage steps of parallel calls, the result of
\* each call is the result of running compile alone on that call's own input.
C10_NoInterference ==
    \A c \in Callers :
        Returned(c) => result[c] = compile(policy_input[c])

\* A call returned Pass while another caller was in the middle of compiling a
\* different input.
C10_Witness ==
    \E c, d \in Callers :
        /\ Returned(c) /\ result[c].verdict = "Pass"
        /\ pc[d] \in {"CompilingDIO", "CompilingZT", "CompilingICAE", "BuildingTraceability"}
        /\ policy_input[c] # policy_input[d]
        /\ result[c] = compile(policy_input[c])

\* C11: compile never panics: every call returns a CompilationResult, also for
\* clauses longer than the truncation limits that contain multi-byte characters.
C11_NeverPanics ==
    \A c \in Callers : pc[c] # "Panicked"

\* A call panicked in the ZT stage, after the DIO stage had completed: a clause that
\* names a principal is longer than 30 bytes and byte 30 is inside a character.
C11_Witness ==
    \E c \in Callers :
        /\ pc[c] = "Panicked"
        /\ \A i \in DOMAIN dio_by_clause[c] : dio_by_clause[c][i] # <<>>
        /\ \E k \in DOMAIN clauses[c] :
               /\ ByteLen(clauses[c][k]) > RuleTextLimit
               /\ ~IsCharBoundary(clauses[c][k], RuleTextLimit)
               /\ Principal_from_clause(clauses[c][k]) # None

\* The clauses (1-based) of caller c's policy that contain a cost indicator and one
\* of the currency glyphs $, Euro, Pound, Yen.
GlyphCostClauses(c) ==
    {k \in DOMAIN clauses[c] :
        /\ has_cost_mention(clauses[c][k])
        /\ \E g \in {"$", Euro, Pound, Yen} : Contains(clauses[c][k], <<g>>)}

\* C12: every policy with a cost-bearing clause that contains a currency glyph gets
\* verdict Fail, whether or not the clause also holds a unit keyword or an amount; when
\* the policy passes normalization and the ZT stage and the clause has a subject, the
\* errors include MissingMeasurementUnit at that clause's index.
C12_GlyphBlocksUnit ==
    \A c \in Callers :
        Ended(c) =>
            \A k \in GlyphCostClauses(c) :
                /\ Returned(c)
                /\ result[c].verdict = "Fail"
                /\ (PassesNormalization(c) /\ Unauthorized(c) = {}
                        /\ extract_subject(clauses[c][k]) # None) =>
                       \E j \in DOMAIN result[c].errors :
                           result[c].errors[j] = MissingMeasurementUnit(k - 1, clauses[c][k])

\* A call on a policy whose cost-bearing clause contains a currency glyph panicked
\* instead of returning Fail.
C12_Witness ==
    \E c \in Callers :
        /\ pc[c] = "Panicked"
        /\ GlyphCostClauses(c) # {}

\* The unit keywords in the priority order of the resolver, and the unit of each.
UnitPriority == <<"usd", "eur", "gbp", "tokens", "bytes", "requests", "hours">>
UnitOfKeyword == <<"USD", "EUR", "GBP", "tokens", "bytes", "requests", "hours">>

\* The positions in UnitPriority of the keywords the clause contains, in any case.
KeywordsIn(clause) ==
    {w \in DOMAIN UnitPriority : Contains(ToLowercase(clause), Chars(UnitPriority[w]))}

\* The clauses (1-based) of caller c's policy that contain a cost indicator.
CostClauses(c) == {k \in DOMAIN clauses[c] : has_cost_mention(clauses[c][k])}

\* Every clause of caller c's policy is valid and every cost clause has a subject, a
\* unit keyword and no currency glyph.
ValidWithUnits(c) ==
    /\ PassesNormalization(c)
    /\ Unauthorized(c) = {}
    /\ CostClauses(c) # {}
    /\ \A k \in CostClauses(c) :
           /\ extract_subject(clauses[c][k]) # None
           /\ KeywordsIn(clauses[c][k]) # {}
           /\ \A g \in DOMAIN CurrencyGlyphs : ~Contains(clauses[c][k], CurrencyGlyphs[g])

\* C13: a policy of valid clauses whose cost clauses hold a unit keyword and no currency
\* glyph passes, with one cost constraint per cost clause whose measurement_unit is the
\* unit of the first keyword, in the order usd, eur, gbp, tokens, bytes, requests,
\* hours, that the clause contains.
C13_UnitKeywords ==
    \A c \in Callers :
        (Ended(c) /\ ValidWithUnits(c)) =>
            /\ Returned(c)
            /\ result[c].verdict = "Pass"
            /\ \A k \in CostClauses(c) :
                   LET first == CHOOSE w \in KeywordsIn(clauses[c][k]) :
                                    \A v \in KeywordsIn(clauses[c][k]) : w <= v
                       own == {j \in DOMAIN result[c].icae_constraints :
                                  result[c].icae_constraints[j].clause_index = k - 1}
                   IN  /\ Cardinality(own) = 1
                       /\ \A j \in own :
                              result[c].icae_constraints[j].measurement_unit
                                  = UnitOfKeyword[first]

\* A call on a valid policy whose cost clause holds a unit keyword panicked instead of
\* passing.
C13_Witness ==
    \E c \in Callers :
        /\ pc[c] = "Panicked"
        /\ ValidWithUnits(c)

\* The call of caller c has left the DIO stage, by whatever way.
PastDIO(c) ==
    /\ pc[c] \in {"CompilingZT", "CompilingICAE", "BuildingTraceability", "Done", "Panicked"}
    /\ PassesNormalization(c)

\* C14: DIO compilation has no failure path and emits exactly one invariant per clause:
\* a call that has left the DIO stage holds one invariant for every clause, and on Pass
\* dio_invariants has one element per clause in clause order, the element of clause i
\* with id dio_i, clause_index i and failure_signal VIOLATION_DIO_i.
C14_OneInvariantPerClause ==
    \A c \in Callers :
        /\ PastDIO(c) =>
               \A k \in DOMAIN clauses[c] : Len(dio_by_clause[c][k - 1]) = 1
        /\ (Returned(c) /\ result[c].verdict = "Pass") =>
               /\ Len(result[c].dio_invariants) = Len(clauses[c])
               /\ \A k \in DOMAIN result[c].dio_invariants :
                      LET inv == result[c].dio_invariants[k]
                      IN  /\ inv.id = "dio_" \o ToString(k - 1)
                          /\ inv.clause_index = k - 1
                          /\ inv.failure_signal = "VIOLATION_DIO_" \o ToString(k - 1)

\* A call left the DIO stage by a panic, without an invariant for any clause: a clause
\* is longer than 50 bytes and byte 50 is inside a character.
C14_Witness ==
    \E c \in Callers :
        /\ pc[c] = "Panicked"
        /\ \A i \in DOMAIN dio_by_clause[c] : dio_by_clause[c][i] = <<>>
        /\ \E k \in DOMAIN clauses[c] :
               /\ ByteLen(clauses[c][k]) > DioDescriptionLimit
               /\ ~IsCharBoundary(clauses[c][k], DioDescriptionLimit)

\* The clause holds a conjunction, in any case.
HasConjunction(clause) ==
    \E w \in {" and ", " or "} : Contains(ToLowercase(clause), Chars(w))

\* The clause holds an ordering marker, in any case.
HasOrderingMarker(clause) ==
    \E w \in {"then", "before", "after"} : Contains(ToLowercase(clause), Chars(w))

\* The normalization of caller c's policy is over, and the policy has no modal term
\* and an action verb in every clause.
ReachesMultiActionPass(c) ==
    /\ pc[c] \notin {"Idle", "Segmenting", "Normalizing"}
    /\ clauses[c] # <<>>
    /\ \A k \in DOMAIN clauses[c] : ~HasModal(clauses[c][k]) /\ ~LacksAction(clauses[c][k])

\* C15: for a policy with no modal term and an action verb in every clause,
\* normalization fails with AmbiguousMultiAction exactly when some clause holds " and "
\* or " or " and none of the ordering markers then, before, after; a clause with a
\* conjunction and an ordering marker is not rejected.
C15_MultiAction ==
    \A c \in Callers :
        ReachesMultiActionPass(c) =>
            ((\E k \in DOMAIN clauses[c] :
                  HasConjunction(clauses[c][k]) /\ ~HasOrderingMarker(clauses[c][k]))
             <=> (Returned(c) /\ "AmbiguousMultiAction" \in ErrorKinds(c)))

\* A call passed on a clause that holds a conjunction together with an ordering marker.
C15_Witness ==
    \E c \in Callers :
        /\ Returned(c) /\ result[c].verdict = "Pass"
        /\ \E k \in DOMAIN clauses[c] :
               HasConjunction(clauses[c][k]) /\ HasOrderingMarker(clauses[c][k])

\* The whitespace-delimited tokens of the clause, each stripped of its leading and
\* trailing non-alphanumeric characters and upper-cased.
PrincipalTokens(clause) ==
    LET words == SplitWhitespace(clause)
    IN  [i \in DOMAIN words |->
            ToUppercase(TrimMatches(words[i], NotAlphanumeric(words[i])))]

\* The positions of the tokens of the clause that equal a principal name.
PrincipalPositions(clause) ==
    {i \in DOMAIN PrincipalTokens(clause) :
        PrincipalTokens(clause)[i] \in {Chars("SYSTEM"), Chars("USER"), Chars("SERVICE")}}

\* C16: the principal of a clause is that of the first token which, stripped and
\* upper-cased, equals SYSTEM, USER or SERVICE, and there is none when no token does: on
\* Pass the authority of each clause carries that principal, and a policy that passes
\* normalization fails with MissingPrincipal for exactly the clauses without such a
\* token, also when a token contains a principal name as a substring.
C16_PrincipalByToken ==
    \A c \in Callers :
        (Returned(c) /\ PassesNormalization(c)) =>
            \A k \in DOMAIN clauses[c] :
                LET at == PrincipalPositions(clauses[c][k])
                    reported == \E j \in DOMAIN result[c].errors :
                                    result[c].errors[j] = MissingPrincipal(k - 1, clauses[c][k])
                IN  /\ (at = {}) <=> reported
                    /\ (at # {} /\ result[c].verdict = "Pass") =>
                           \E j \in DOMAIN result[c].zt_authority_graph :
                               LET auth == result[c].zt_authority_graph[j]
                                   first == CHOOSE i \in at : \A h \in at : i <= h
                               IN  /\ auth.clause_index = k - 1
                                   /\ Chars(auth.principal)
                                          = PrincipalTokens(clauses[c][k])[first]

\* A call failed with MissingPrincipal on a clause in which a token contains a principal
\* name as a substring.
C16_Witness ==
    \E c \in Callers :
        /\ Returned(c)
        /\ "MissingPrincipal" \in ErrorKinds(c)
        /\ \E k \in DOMAIN clauses[c] :
               /\ Contains(ToUppercase(clauses[c][k]), Chars("SYSTEM"))
               /\ PrincipalPositions(clauses[c][k]) = {}

\* C17: the modal pass scans every clause before the action-verb pass starts, and the
\* action-verb pass every clause before the multi-action pass starts: a policy with a
\* modal clause fails with ModalLanguageDetected whatever the clauses before it lack,
\* and a policy without a modal clause but with a clause without an action verb fails
\* with MissingActionVerb even when an earlier clause is an ambiguous multi-action.
C17_PassOrdering ==
    \A c \in Callers :
        (pc[c] \notin {"Idle", "Segmenting", "Normalizing"} /\ clauses[c] # <<>>) =>
            LET modal == Violating(c, "ModalLanguageDetected")
                verbless == Violating(c, "MissingActionVerb")
                ambiguous == Violating(c, "AmbiguousMultiAction")
                expected == IF modal # {} THEN "ModalLanguageDetected"
                            ELSE IF verbless # {} THEN "MissingActionVerb"
                            ELSE IF ambiguous # {} THEN "AmbiguousMultiAction"
                            ELSE "none"
            IN  IF expected = "none"
                THEN Returned(c) => ErrorKinds(c) \cap FailFastKinds = {}
                ELSE /\ Returned(c)
                     /\ ErrorKinds(c) = {expected}
                     /\ \A k \in Violating(c, expected) :
                            result[c].errors[1].clause_index + 1 <= k

\* A call reported the modal term of its second clause although its first clause has
\* no action verb.
C17_Witness ==
    \E c \in Callers :
        /\ Returned(c)
        /\ ErrorKinds(c) = {"ModalLanguageDetected"}
        /\ result[c].errors[1].clause_index = 1
        /\ 1 \in Violating(c, "MissingActionVerb")

\* The moves of the pipeline: stage to next stage, the validating stages to Done, and
\* the caller's own moves into a call and out of Done.
PipelineMoves ==
    { <<"Idle", "Segmenting">>,
      <<"Segmenting", "Normalizing">>, <<"Segmenting", "Done">>,
      <<"Normalizing", "CompilingDIO">>, <<"Normalizing", "Done">>,
      <<"CompilingDIO", "CompilingZT">>,
      <<"CompilingZT", "CompilingICAE">>, <<"CompilingZT", "Done">>,
      <<"CompilingICAE", "BuildingTraceability">>, <<"CompilingICAE", "Done">>,
      <<"BuildingTraceability", "Done">>,
      <<"Done", "Idle">> }

\* Every step of a call is a move of the pipeline; Done is entered with Pass from
\* BuildingTraceability and with Fail from the validating stages; a result is not
\* changed once the call is Done.
SequentialStages ==
    [][\A c \in Callers :
           /\ pc'[c] # pc[c] => <<pc[c], pc'[c]>> \in PipelineMoves
           /\ (pc[c] # "Done" /\ pc'[c] = "Done") =>
                  IF pc[c] = "BuildingTraceability"
                  THEN result'[c].verdict = "Pass"
                  ELSE result'[c].verdict = "Fail"
           /\ (pc[c] = "Done" /\ pc'[c] = "Done") => result'[c] = result[c]]_vars

\* C18: every compile call moves through Segmenting, Normalizing, CompilingDIO,
\* CompilingZT, CompilingICAE, BuildingTraceability in that order without revisiting or
\* skipping a stage, enters Done(Fail) only from Segmenting, Normalizing, CompilingZT or
\* CompilingICAE, takes no further step once in Done, and every call that has started
\* eventually reaches Done.
C18_SequentialPipeline ==
    /\ SequentialStages
    /\ \A c \in {1} : (pc[c] = "Segmenting") ~> (pc[c] = "Done")

\* A call left the pipeline from a stage that has no failure transition: it panicked
\* in CompilingDIO and will never reach Done.
C18_Witness ==
    \E c \in Callers :
        /\ pc[c] = "Panicked"
        /\ result[c] = Pending
        /\ compile_dio_invariants_panics(clauses[c])

\* The cost-indicator keywords, as the cost rule lists them.
CostIndicatorWords ==
    << Chars("cost"), Chars("spend"), Chars("usage"), Chars("quota"),
       Chars("resource consumption"), Chars("externality"), Chars("budget"),
       Chars("expense") >>

\* The clause contains a cost-indicator keyword as a substring, in any letter case.
HasCostIndicator(clause) ==
    \E w \in DOMAIN CostIndicatorWords :
        \E at \in 1..Len(clause) :
            /\ at + Len(CostIndicatorWords[w]) - 1 <= Len(clause)
            /\ ToLowercase(SubSeq(clause, at, at + Len(CostIndicatorWords[w]) - 1))
                   = CostIndicatorWords[w]

\* C19: on Pass, icae_constraints has a constraint for clause i exactly if clause i
\* contains a cost-indicator keyword (case-insensitive substring); there is one such
\* constraint, it has id icae_i, clause_index i, no ceiling and exactly one externality
\* note; a clause without a cost indicator has no constraint and, in any returned
\* result, no cost error.
C19_CostConstraints ==
    \A c \in Callers :
        /\ (Returned(c) /\ result[c].verdict = "Pass") =>
               LET cs == result[c].icae_constraints
               IN  /\ \A k \in DOMAIN clauses[c] :
                          LET mine == {j \in DOMAIN cs : cs[j].clause_index = k - 1}
                          IN  IF HasCostIndicator(clauses[c][k])
                              THEN Cardinality(mine) = 1
                              ELSE mine = {}
                   /\ \A j \in DOMAIN cs :
                          /\ cs[j].clause_index + 1 \in DOMAIN clauses[c]
                          /\ cs[j].id = "icae_" \o ToString(cs[j].clause_index)
                          /\ cs[j].ceiling = None
                          /\ Len(cs[j].externalities) = 1
        /\ Returned(c) =>
               \A j \in DOMAIN result[c].errors :
                   result[c].errors[j].kind \in {"MissingCostSubject", "MissingMeasurementUnit"}
                       => HasCostIndicator(clauses[c][result[c].errors[j].clause_index + 1])

\* A call passed on two clauses: the first has no cost indicator and no constraint, the
\* second has the indicator in capitals or inside a longer word and the one constraint.
C19_Witness ==
    \E c \in Callers :
        /\ Returned(c) /\ result[c].verdict = "Pass"
        /\ Len(clauses[c]) = 2
        /\ ~HasCostIndicator(clauses[c][1])
        /\ HasCostIndicator(clauses[c][2])
        /\ ~ContainsAny(clauses[c][2], CostIndicatorWords)
        /\ Len(result[c].icae_constraints) = 1
        /\ result[c].icae_constraints[1].id = "icae_1"
        /\ result[c].icae_constraints[1].ceiling = None

\* The pieces of a text between its '.' characters, from the positions of the dots.
DotPieces(text) ==
    LET dots == Ascending({i \in DOMAIN text : text[i] = "."})
        cuts == <<0>> \o dots \o <<Len(text) + 1>>
    IN  [j \in 1..(Len(dots) + 1) |-> SubSeq(text, cuts[j] + 1, cuts[j + 1] - 1)]

\* A piece without the whitespace at its two ends; empty if it is all whitespace.
Stripped(piece) ==
    LET solid == {k \in DOMAIN piece : ~IsWhitespace(piece[k])}
    IN  IF solid = {} THEN <<>>
        ELSE SubSeq(piece, CHOOSE k \in solid : \A m \in solid : k <= m,
                           CHOOSE k \in solid : \A m \in solid : k >= m)

\* The non-empty stripped pieces of a text, in source order.
Segments(text) ==
    LET pieces == DotPieces(text)
        kept == Ascending({j \in DOMAIN pieces : Stripped(pieces[j]) # <<>>})
    IN  [i \in DOMAIN kept |-> Stripped(pieces[kept[i]])]

\* C20: on Pass, intent_normalization.clauses is the sequence of pieces obtained by
\* splitting the input on '.', trimming each piece and dropping the empty ones, in
\* source order; every clause is non-empty, has no whitespace at either end and
\* contains no '.'.
C20_IndexStableSegments ==
    \A c \in Callers :
        (Returned(c) /\ result[c].verdict = "Pass") =>
            LET cs == result[c].intent_normalization.clauses
            IN  /\ cs = Segments(policy_input[c])
                /\ \A i \in DOMAIN cs :
                       /\ cs[i] # <<>>
                       /\ ~IsWhitespace(cs[i][1])
                       /\ ~IsWhitespace(cs[i][Len(cs[i])])
                       /\ \A k \in DOMAIN cs[i] : cs[i][k] # "."

\* A call passed on an input that starts with whitespace, has an empty piece between
\* its two clauses and leaves the last clause unterminated.
C20_Witness ==
    \E c \in Callers :
        /\ Returned(c) /\ result[c].verdict = "Pass"
        /\ Len(result[c].intent_normalization.clauses) = 2
        /\ IsWhitespace(policy_input[c][1])
        /\ policy_input[c][Len(policy_input[c])] # "."
        /\ \E i \in DOMAIN policy_input[c] :
               /\ i + 1 \in DOMAIN policy_input[c]
               /\ policy_input[c][i] = "." /\ policy_input[c][i + 1] = "."

\* The clause contains one of the words as a substring, in any letter case.
Mentions(clause, words) ==
    \E w \in DOMAIN words :
        \E at \in 1..Len(clause) :
            /\ at + Len(words[w]) - 1 <= Len(clause)
            /\ ToLowercase(SubSeq(clause, at, at + Len(words[w]) - 1)) = words[w]

AssumptionWords == <<Chars("assumes"), Chars("assuming")>>
ExclusionWords == <<Chars("except"), Chars("exclude"), Chars("unless")>>

\* The clauses of cs that mention one of the words, in clause order.
Mentioning(cs, words) ==
    LET at == Ascending({k \in DOMAIN cs : Mentions(cs[k], words)})
    IN  [i \in DOMAIN at |-> cs[at[i]]]

\* C21: on Pass, assumptions is the subsequence, in clause order, of the clauses that
\* contain "assumes" or "assuming", exclusions the subsequence of those that contain
\* "except", "exclude" or "unless", in any letter case; a clause may be in both, one or
\* neither list, and intent_normalization.clauses still holds every clause.
C21_AssumptionsExclusions ==
    \A c \in Callers :
        (Returned(c) /\ result[c].verdict = "Pass") =>
            LET n == result[c].intent_normalization
            IN  /\ n.clauses = clauses[c]
                /\ n.assumptions = Mentioning(clauses[c], AssumptionWords)
                /\ n.exclusions = Mentioning(clauses[c], ExclusionWords)

\* A call passed on two clauses: one is both an assumption and an exclusion, the other
\* is neither, and both are still clauses of the result.
C21_Witness ==
    \E c \in Callers :
        /\ Returned(c) /\ result[c].verdict = "Pass"
        /\ Len(result[c].intent_normalization.clauses) = 2
        /\ Len(result[c].intent_normalization.assumptions) = 1
        /\ result[c].intent_normalization.exclusions
               = result[c].intent_normalization.assumptions
        /\ result[c].intent_normalization.assumptions[1]
               = result[c].intent_normalization.clauses[2]

\* The whitespace-delimited tokens of the clause, each stripped of its leading and
\* trailing non-alphanumeric characters.
SubjectTokens(clause) ==
    LET words == SplitWhitespace(clause)
    IN  [i \in DOMAIN words |-> TrimMatches(words[i], NotAlphanumeric(words[i]))]

\* The stop words of the subject extractor.
SubjectStopWords ==
    { Chars("cost"), Chars("spend"), Chars("usage"), Chars("quota"), Chars("the"),
      Chars("a"), Chars("an"), Chars("of"), Chars("for"), Chars("per"), Chars("must"),
      Chars("shall"), Chars("cannot"), Chars("exceed"), Chars("all"), Chars("no"),
      Chars("be"), Chars("by"), Chars("system"), Chars("user"), Chars("service") }

\* The positions of the tokens longer than three characters that are not stop words.
SubjectPositions(clause) ==
    {i \in DOMAIN SubjectTokens(clause) :
        /\ Len(SubjectTokens(clause)[i]) > 3
        /\ ToLowercase(SubjectTokens(clause)[i]) \notin SubjectStopWords}

\* C22: the subject of a cost-bearing clause is its first token, stripped of leading and
\* trailing non-alphanumeric characters, that is longer than 3 characters and whose
\* lowercase form is not a stop word; a policy that passes normalization and the ZT
\* stage carries that subject in the clause's constraint on Pass, and fails with
\* MissingCostSubject for the clause when every token is filtered out.
C22_SubjectExtraction ==
    \A c \in Callers :
        (Returned(c) /\ PassesNormalization(c) /\ Unauthorized(c) = {}) =>
            \A k \in DOMAIN clauses[c] :
                HasCostIndicator(clauses[c][k]) =>
                    LET at == SubjectPositions(clauses[c][k])
                    IN  IF at = {}
                        THEN \E j \in DOMAIN result[c].errors :
                                 result[c].errors[j] = MissingCostSubject(k - 1, clauses[c][k])
                        ELSE /\ \A j \in DOMAIN result[c].errors :
                                    result[c].errors[j] # MissingCostSubject(k - 1, clauses[c][k])
                             /\ result[c].verdict = "Pass" =>
                                    \E j \in DOMAIN result[c].icae_constraints :
                                        /\ result[c].icae_constraints[j].clause_index = k - 1
                                        /\ result[c].icae_constraints[j].subject
                                               = SubjectTokens(clauses[c][k])[
                                                     CHOOSE i \in at : \A m \in at : i <= m]

\* A call passed with a cost constraint whose subject is a token of three characters.
C22_Witness ==
    \E c \in Callers :
        /\ Returned(c) /\ result[c].verdict = "Pass"
        /\ \E j \in DOMAIN result[c].icae_constraints :
               /\ Len(result[c].icae_constraints[j].subject) = 3
               /\ ByteLen(result[c].icae_constraints[j].subject) > 3

\* The text is the clause itself when the clause has at most n bytes, and otherwise n
\* bytes' worth of whole leading characters of the clause followed by "...".
IsTruncationOf(text, clause, n) ==
    IF ByteLen(clause) <= n THEN text = clause
    ELSE \E p \in 0..Len(clause) :
             /\ ByteLen(SubSeq(clause, 1, p)) = n
             /\ text = SubSeq(clause, 1, p) \o Chars("...")

\* The text ends with a truncation of the clause to n bytes and is bounded by it.
EndsWithTruncation(text, clause, n) ==
    /\ \E from \in 1..(Len(text) + 1) :
           IsTruncationOf(SubSeq(text, from, Len(text)), clause, n)
    /\ ByteLen(text) <= 60 + n + 3

\* C23: truncate_clause(c, n) returns c when c has at most n units and otherwise the
\* first n units of c followed by "..."; the cut is never inside a multi-byte character,
\* so no call ends in a panic, and on Pass every DIO description carries the clause
\* truncated to 50 and every ZT and ICAE rule text the clause truncated to 30.
C23_TruncationOnBoundary ==
    \A c \in Callers :
        /\ pc[c] \in {"CompilingZT", "CompilingICAE", "BuildingTraceability", "Panicked"} =>
               /\ pc[c] # "Panicked"
               /\ \A i \in DOMAIN dio_by_clause[c] : dio_by_clause[c][i] # <<>>
        /\ (Returned(c) /\ result[c].verdict = "Pass") =>
               LET r == result[c]
               IN  /\ \A j \in DOMAIN r.dio_invariants :
                          EndsWithTruncation(r.dio_invariants[j].description,
                              clauses[c][r.dio_invariants[j].clause_index + 1],
                              DioDescriptionLimit)
                   /\ \A j \in DOMAIN r.zt_authority_graph :
                          LET clause == clauses[c][r.zt_authority_graph[j].clause_index + 1]
                          IN  /\ EndsWithTruncation(r.zt_authority_graph[j].delegation_rules[1],
                                                    clause, RuleTextLimit)
                              /\ EndsWithTruncation(r.zt_authority_graph[j].revocation_triggers[1],
                                                    clause, RuleTextLimit)
                   /\ \A j \in DOMAIN r.icae_constraints :
                          EndsWithTruncation(r.icae_constraints[j].externalities[1],
                              clauses[c][r.icae_constraints[j].clause_index + 1],
                              RuleTextLimit)

\* A call panicked on a clause whose byte offset 30 or 50 lies strictly inside one of
\* its characters.
C23_Witness ==
    \E c \in Callers :
        /\ pc[c] = "Panicked"
        /\ \E k \in DOMAIN clauses[c] :
           \E n \in {RuleTextLimit, DioDescriptionLimit} :
           \E p \in 1..Len(clauses[c][k]) :
               /\ ByteLen(SubSeq(clauses[c][k], 1, p - 1)) < n
               /\ ByteLen(SubSeq(clauses[c][k], 1, p)) > n

\* C24: on Pass every clause has exactly one ZT authority: zt_authority_graph,
\* dio_invariants, traceability_map and intent_normalization.clauses have the same
\* length, the k-th element of each artifact list has clause_index k, authority k has
\* id zt_auth_k and scope scope_k, and icae_constraints is in strictly increasing
\* clause_index order.
C24_AlignedArtifacts ==
    \A c \in Callers :
        (Returned(c) /\ result[c].verdict = "Pass") =>
            LET r == result[c]
                n == Len(r.intent_normalization.clauses)
            IN  /\ Len(r.zt_authority_graph) = n
                /\ Len(r.dio_invariants) = n
                /\ Len(r.traceability_map) = n
                /\ \A k \in 1..n :
                       /\ Cardinality({j \in DOMAIN r.zt_authority_graph :
                                          r.zt_authority_graph[j].clause_index = k - 1}) = 1
                       /\ r.zt_authority_graph[k].clause_index = k - 1
                       /\ r.dio_invariants[k].clause_index = k - 1
                       /\ r.traceability_map[k].clause_index = k - 1
                       /\ r.zt_authority_graph[k].id = "zt_auth_" \o ToString(k - 1)
                       /\ r.zt_authority_graph[k].scope = "scope_" \o ToString(k - 1)
                /\ \A i, j \in DOMAIN r.icae_constraints :
                       i < j => r.icae_constraints[i].clause_index
                                    < r.icae_constraints[j].clause_index

\* A call passed on two clauses with different principals, each with a cost constraint.
C24_Witness ==
    \E c \in Callers :
        /\ Returned(c) /\ result[c].verdict = "Pass"
        /\ Len(result[c].zt_authority_graph) = 2
        /\ result[c].zt_authority_graph[1].principal
               # result[c].zt_authority_graph[2].principal
        /\ Len(result[c].icae_constraints) >= 1
        /\ result[c].icae_constraints[Len(result[c].icae_constraints)].clause_index = 1

=============================================================================
